---- MODULE Spec2Model ----
(***************************************************************************)
(* State-machine model of SimPEG/Mesh/TensorMesh.py: construction of a     *)
(* tensor mesh, its per-axis vectors, getTensor, isInside, the memoised    *)
(* grids and measures, and the dispatch of getInterpolationMat.            *)
(*                                                                         *)
(* Numbers are exact fixed-point values: the integer One stands for the    *)
(* real 1.0, and every cell width is an even integer, so that the product  *)
(* h*0.5 of the source is exact.  Floating-point rounding is not modelled. *)
(* A Python value that may be None is a tuple of length 0 (None) or 1.     *)
(***************************************************************************)
EXTENDS Integers, Sequences, FiniteSets, TLC

VARIABLES status, _h, x0, n, cache, computed, ret

vars == <<status, _h, x0, n, cache, computed, ret>>

(***************************************************************************)
(* Bounds of the model and the sets the inputs are drawn from              *)
(***************************************************************************)
\* most cells per axis of the meshes of SpecGeom and SpecMeasure
MaxCells == 2
\* most cells per axis of the meshes of Spec
LifeCells == 1
\* the fixed-point representation of the real number 1.0
One == 4
\* the cell widths the explicit width arrays are made of (0.5 and 1.0)
Widths == {2, 4}

None == <<>>
Some(v) == <<v>>
Val(o) == o[1]

Range(s) == {s[i] : i \in DOMAIN s}

RECURSIVE Sum(_)
Sum(s) == IF s = <<>> THEN 0 ELSE s[1] + Sum(Tail(s))

RECURSIVE Prod(_)
Prod(s) == IF s = <<>> THEN 1 ELSE s[1] * Prod(Tail(s))

SeqsUpTo(S, k) == UNION {[1..m -> S] : m \in 1..k}

(***************************************************************************)
(* numpy primitives used by the source                                     *)
(***************************************************************************)
ones(k) == [i \in 1..k |-> 1]

cumsum(v) == [i \in 1..Len(v) |-> Sum(SubSeq(v, 1, i))]

\* np.r_[0, v]
r_0(v) == <<0>> \o v

\* v + c, elementwise
shift(v, c) == [i \in 1..Len(v) |-> v[i] + c]

\* v * 0.5, exact because every width is even
half(v) == [i \in 1..Len(v) |-> v[i] \div 2]

\* elementwise sum of two vectors of the same length
vadd(u, v) == [i \in 1..Len(u) |-> u[i] + v[i]]

min(v) == CHOOSE m \in Range(v) : \A e \in Range(v) : m <= e
max(v) == CHOOSE m \in Range(v) : \A e \in Range(v) : m >= e

\* np.outer(a, b): a Len(a) x Len(b) matrix, as a sequence of rows
outer(a, b) == [i \in 1..Len(a) |-> [j \in 1..Len(b) |-> a[i] * b[j]]]

\* Utils.mkvc of a matrix: flattened with the first index varying fastest
mkvc(M) ==
    LET rows == Len(M)
        cols == Len(M[1])
    IN  [r \in 1..(rows * cols) |-> M[((r - 1) % rows) + 1][((r - 1) \div rows) + 1]]

\* Utils.mkvc of a 1-D array
mkvc1(v) == v

(***************************************************************************)
(* Constructor inputs                                                      *)
(***************************************************************************)
ndarray1(v) == [type |-> "ndarray", shape |-> <<Len(v)>>, data |-> v]
ndarray2(v) == [type |-> "ndarray", shape |-> <<1, Len(v)>>, data |-> v]
pylist(v) == [type |-> "list", shape |-> <<Len(v)>>, data |-> v]
pyint(k) == [type |-> "int", shape |-> <<>>, data |-> <<k>>]

\* the integers k for which One/k is an exact even width
IntSpecs(k) == {m \in 1..k : One % m = 0 /\ (One \div m) % 2 = 0}

AxisSpecs(k) ==
    {ndarray1(v) : v \in SeqsUpTo(Widths, k)}
        \cup {pyint(m) : m \in IntSpecs(k)}
        \cup {ndarray2(<<2>>), pylist(<<2>>)}

HInputs(k) ==
    {[type |-> "list", items |-> s] : s \in SeqsUpTo(AxisSpecs(k), 3)}
        \cup {[type |-> "int", items |-> <<>>],
              [type |-> "tuple", items |-> <<ndarray1(<<2>>)>>]}

X0Inputs == {None, Some(<<3>>), Some(<<3, -2>>), Some(<<3, -2, 5>>)}

\* the meshes of Spec: the same explicit width array on every axis
LifeInputs ==
    {[type |-> "list", items |-> [a \in 1..d |-> ndarray1([i \in 1..c |-> 2])]] :
        d \in 1..3, c \in 1..LifeCells}

(***************************************************************************)
(* TensorMesh.__init__                                                     *)
(***************************************************************************)
\* lines 44-46: a number n becomes n equal cells over the unit interval
convert(h_i) ==
    IF h_i.type \in {"int", "long", "float"}
    THEN ndarray1([i \in 1..h_i.data[1] |-> One \div h_i.data[1]])
    ELSE h_i

\* lines 47-48 for one axis
axisError(h_i) ==
    LET c == convert(h_i)
    IN  IF c.type # "ndarray" THEN TRUE
        ELSE Len(c.shape) # 1

failure(kind, nn, xx) == [kind |-> kind, n |-> nn, x0 |-> xx, h |-> None]

\* BaseMesh.__init__(n, x0): validates, then sets the cell counts and origin
BaseMesh_init(nn, x0_in) ==
    LET x == IF x0_in = None THEN [i \in 1..Len(nn) |-> 0] ELSE Val(x0_in)
    IN  IF Len(nn) # Len(x)
        THEN failure("InvalidArgument", None, None)
        ELSE [kind |-> "ok", n |-> Some(nn), x0 |-> Some(x), h |-> None]

\* the constructor without the check of line 48 that each array is 1-D
TensorMesh_init_noShapeCheck(h_in, x0_in) ==
    IF h_in.type # "list" THEN failure("AssertionError", None, None)
    ELSE IF \E i \in DOMAIN h_in.items : convert(h_in.items[i]).type # "ndarray"
    THEN failure("AssertionError", None, None)
    ELSE LET h == [i \in DOMAIN h_in.items |-> convert(h_in.items[i]).data]
             base == BaseMesh_init([i \in DOMAIN h |-> Len(h[i])], x0_in)
         IN  IF base.kind # "ok" THEN base
             ELSE IF Len(h) # Len(Val(base.x0))
             THEN failure("AssertionError", base.n, base.x0)
             ELSE [base EXCEPT !.h = Some([i \in DOMAIN h |-> mkvc1(h[i])])]

\* the whole constructor: what it raises and which attributes it has set
TensorMesh_init(h_in, x0_in) ==
    IF h_in.type # "list" THEN failure("AssertionError", None, None)
    ELSE IF \E i \in DOMAIN h_in.items : axisError(h_in.items[i])
    THEN failure("AssertionError", None, None)
    ELSE LET h == [i \in DOMAIN h_in.items |-> convert(h_in.items[i]).data]
             base == BaseMesh_init([i \in DOMAIN h |-> Len(h[i])], x0_in)
         IN  IF base.kind # "ok" THEN base
             ELSE IF Len(h) # Len(Val(base.x0))
             THEN failure("AssertionError", base.n, base.x0)
             ELSE [base EXCEPT !.h = Some([i \in DOMAIN h |-> mkvc1(h[i])])]

NoRet == [op |-> "idle", arg |-> None, kind |-> "none", val |-> None]

Slots == {"_gridCC", "_gridN", "_gridFx", "_gridFy", "_gridFz",
          "_gridEx", "_gridEy", "_gridEz", "_vol", "_area", "_edge"}

Init ==
    /\ status = "new"
    /\ _h = None
    /\ x0 = None
    /\ n = None
    /\ cache = [s \in Slots |-> None]
    /\ computed = [s \in Slots |-> 0]
    /\ ret = NoRet

__init__(h_in, x0_in) ==
    /\ status = "new"
    /\ LET r == TensorMesh_init(h_in, x0_in)
       IN  /\ status' = IF r.kind = "ok" THEN "ok" ELSE "failed"
           /\ _h' = r.h
           /\ x0' = r.x0
           /\ n' = r.n
           /\ ret' = [op |-> "__init__", arg |-> <<h_in, x0_in>>,
                      kind |-> r.kind, val |-> None]
    /\ UNCHANGED <<cache, computed>>

\* the caller takes the result of a call and goes on to its next statement
Return ==
    /\ status = "ok"
    /\ ret # NoRet
    /\ ret' = NoRet
    /\ UNCHANGED <<status, _h, x0, n, cache, computed>>

Idle == status = "ok" /\ ret = NoRet

(***************************************************************************)
(* Attributes of the constructed mesh                                      *)
(***************************************************************************)
\* BaseMesh.dim: the number of axes
dim == Len(Val(n))

\* BaseMesh.nCv: the cell counts per axis
nCv == Val(n)

\* TensorMesh.h
h == Val(_h)

hx == Some(h[1])
hy == IF dim < 2 THEN None ELSE Some(h[2])
hz == IF dim < 3 THEN None ELSE Some(h[3])

vectorNx == Some(shift(r_0(cumsum(Val(hx))), Val(x0)[1]))
vectorNy == IF dim < 2 THEN None ELSE Some(shift(r_0(cumsum(Val(hy))), Val(x0)[2]))
vectorNz == IF dim < 3 THEN None ELSE Some(shift(r_0(cumsum(Val(hz))), Val(x0)[3]))

\* hx[:-1]
butlast(v) == SubSeq(v, 1, Len(v) - 1)

vectorCCx ==
    Some(shift(vadd(r_0(cumsum(butlast(Val(hx)))), half(Val(hx))), Val(x0)[1]))
\* vectorCCy without the shift by the origin
vectorCCy_noOrigin ==
    IF dim < 2 THEN None
    ELSE Some(vadd(r_0(cumsum(butlast(Val(hy)))), half(Val(hy))))

vectorCCy ==
    IF dim < 2 THEN None
    ELSE Some(shift(vadd(r_0(cumsum(butlast(Val(hy)))), half(Val(hy))), Val(x0)[2]))
vectorCCz ==
    IF dim < 3 THEN None
    ELSE Some(shift(vadd(r_0(cumsum(butlast(Val(hz)))), half(Val(hz))), Val(x0)[3]))

Accessors == {"hx", "hy", "hz", "vectorNx", "vectorNy", "vectorNz",
              "vectorCCx", "vectorCCy", "vectorCCz"}

Attr(name) ==
    CASE name = "hx" -> hx
      [] name = "hy" -> hy
      [] name = "hz" -> hz
      [] name = "vectorNx" -> vectorNx
      [] name = "vectorNy" -> vectorNy
      [] name = "vectorNz" -> vectorNz
      [] name = "vectorCCx" -> vectorCCx
      [] name = "vectorCCy" -> vectorCCy
      [] name = "vectorCCz" -> vectorCCz

\* a read of one of the uncached per-axis properties
getattr(name) ==
    /\ Idle
    /\ ret' = [op |-> "getattr", arg |-> <<name>>, kind |-> "ok", val |-> <<Attr(name)>>]
    /\ UNCHANGED <<status, _h, x0, n, cache, computed>>

(***************************************************************************)
(* getTensor                                                               *)
(***************************************************************************)
Tags == {<<"N">>, <<"C", "C">>, <<"F", "x">>, <<"F", "y">>, <<"F", "z">>,
         <<"E", "x">>, <<"E", "y">>, <<"E", "z">>}

\* tags outside the enumeration
BadTags == {<<"V">>, <<"x">>}

\* [t for t in ten if t is not None]
notNone(ten) == SelectSeq(ten, LAMBDA t : t # None)

unwrap(ten) == [i \in 1..Len(ten) |-> Val(ten[i])]

\* getTensor with the rows of Ex and Ey exchanged
getTensor_swappedEdge(locType) ==
    LET ten ==
          CASE locType = <<"F", "x">> -> Some(<<vectorNx, vectorCCy, vectorCCz>>)
            [] locType = <<"F", "y">> -> Some(<<vectorCCx, vectorNy, vectorCCz>>)
            [] locType = <<"F", "z">> -> Some(<<vectorCCx, vectorCCy, vectorNz>>)
            [] locType = <<"E", "y">> -> Some(<<vectorCCx, vectorNy, vectorNz>>)
            [] locType = <<"E", "x">> -> Some(<<vectorNx, vectorCCy, vectorNz>>)
            [] locType = <<"E", "z">> -> Some(<<vectorNx, vectorNy, vectorCCz>>)
            [] locType = <<"C", "C">> -> Some(<<vectorCCx, vectorCCy, vectorCCz>>)
            [] locType = <<"N">> -> Some(<<vectorNx, vectorNy, vectorNz>>)
            [] OTHER -> None
    IN  IF ten = None
        THEN [kind |-> "UnboundLocalError", val |-> None]
        ELSE [kind |-> "ok", val |-> unwrap(notNone(Val(ten)))]

\* the outcome of getTensor: the tensor list, or the error of an unbound `ten`
getTensor(locType) ==
    LET ten ==
          CASE locType = <<"F", "x">> -> Some(<<vectorNx, vectorCCy, vectorCCz>>)
            [] locType = <<"F", "y">> -> Some(<<vectorCCx, vectorNy, vectorCCz>>)
            [] locType = <<"F", "z">> -> Some(<<vectorCCx, vectorCCy, vectorNz>>)
            [] locType = <<"E", "x">> -> Some(<<vectorCCx, vectorNy, vectorNz>>)
            [] locType = <<"E", "y">> -> Some(<<vectorNx, vectorCCy, vectorNz>>)
            [] locType = <<"E", "z">> -> Some(<<vectorNx, vectorNy, vectorCCz>>)
            [] locType = <<"C", "C">> -> Some(<<vectorCCx, vectorCCy, vectorCCz>>)
            [] locType = <<"N">> -> Some(<<vectorNx, vectorNy, vectorNz>>)
            [] OTHER -> None
    IN  IF ten = None
        THEN [kind |-> "UnboundLocalError", val |-> None]
        ELSE [kind |-> "ok", val |-> unwrap(notNone(Val(ten)))]

call_getTensor(locType) ==
    /\ Idle
    /\ LET r == getTensor(locType)
       IN  ret' = [op |-> "getTensor", arg |-> <<locType>>, kind |-> r.kind, val |-> r.val]
    /\ UNCHANGED <<status, _h, x0, n, cache, computed>>

(***************************************************************************)
(* isInside                                                                *)
(***************************************************************************)
\* isInside with the upper bound of the last axis excluded
isInside_halfOpen(pts) ==
    [r \in 1..Len(pts) |->
        LET inx == pts[r][1] >= min(Val(vectorNx)) /\ pts[r][1] <= max(Val(vectorNx))
            iny == IF dim > 1
                   THEN inx /\ (pts[r][2] >= min(Val(vectorNy))
                                /\ pts[r][2] <= max(Val(vectorNy)))
                   ELSE inx
        IN  IF dim > 2
            THEN iny /\ (pts[r][3] >= min(Val(vectorNz))
                         /\ pts[r][3] < max(Val(vectorNz)))
            ELSE iny]

\* one boolean per row of pts
isInside(pts) ==
    [r \in 1..Len(pts) |->
        LET inx == pts[r][1] >= min(Val(vectorNx)) /\ pts[r][1] <= max(Val(vectorNx))
            iny == IF dim > 1
                   THEN inx /\ (pts[r][2] >= min(Val(vectorNy))
                                /\ pts[r][2] <= max(Val(vectorNy)))
                   ELSE inx
        IN  IF dim > 2
            THEN iny /\ (pts[r][3] >= min(Val(vectorNz))
                         /\ pts[r][3] <= max(Val(vectorNz)))
            ELSE iny]

call_isInside(pts) ==
    /\ Idle
    /\ ret' = [op |-> "isInside", arg |-> <<pts>>, kind |-> "ok", val |-> isInside(pts)]
    /\ UNCHANGED <<status, _h, x0, n, cache, computed>>

\* query coordinates along an axis with node vector v: one step outside
\* each bound, the two bounds, and one step inside the lower bound
Coords(v) == {min(v) - 1, min(v), min(v) + 1, max(v), max(v) + 1}

\* every point of the mesh's dimension with those coordinates
Points ==
    LET X == Coords(Val(vectorNx))
    IN  IF dim = 1 THEN {<<x>> : x \in X}
        ELSE LET Y == Coords(Val(vectorNy))
             IN  IF dim = 2 THEN {<<p[1], p[2]>> : p \in X \X Y}
                 ELSE {<<p[1], p[2], p[3]>> : p \in X \X Y \X Coords(Val(vectorNz))}

(***************************************************************************)
(* Memoised grids                                                          *)
(***************************************************************************)
\* Utils.ndgrid: the Cartesian expansion of the per-axis vectors, one row
\* per grid point, the first axis varying fastest
ndgrid(ten) ==
    LET len == [i \in 1..Len(ten) |-> Len(ten[i])]
        stride(i) == Prod(SubSeq(len, 1, i - 1))
    IN  [r \in 1..Prod(len) |->
            [i \in 1..Len(ten) |-> ten[i][(((r - 1) \div stride(i)) % len[i]) + 1]]]

\* a cached property that computes the slot on every read
lazy_recompute(slot, cond, value) ==
    /\ status = "ok" /\ ret = [op |-> "idle", arg |-> None, kind |-> "none", val |-> None]
    /\ IF cond
       THEN /\ cache' = [cache EXCEPT ![slot] = Some(value)]
            /\ computed' = [computed EXCEPT ![slot] = @ + 1]
       ELSE UNCHANGED <<cache, computed>>
    /\ ret' = [op |-> slot, arg |-> None, kind |-> "ok", val |-> cache'[slot]]
    /\ UNCHANGED <<status, _h, x0, n>>

\* the body shared by the cached properties: compute the slot when it is
\* None and cond holds, then return the slot
lazy(slot, cond, value) ==
    /\ Idle
    /\ IF cache[slot] = None /\ cond
       THEN /\ cache' = [cache EXCEPT ![slot] = Some(value)]
            /\ computed' = [computed EXCEPT ![slot] = @ + 1]
       ELSE UNCHANGED <<cache, computed>>
    /\ ret' = [op |-> slot, arg |-> None, kind |-> "ok", val |-> cache'[slot]]
    /\ UNCHANGED <<status, _h, x0, n>>

gridCC == lazy("_gridCC", TRUE, ndgrid(getTensor(<<"C", "C">>).val))
gridN == lazy("_gridN", TRUE, ndgrid(getTensor(<<"N">>).val))
gridFx == lazy("_gridFx", TRUE, ndgrid(getTensor(<<"F", "x">>).val))
gridFy == lazy("_gridFy", dim > 1, ndgrid(getTensor(<<"F", "y">>).val))
gridFz == lazy("_gridFz", dim > 2, ndgrid(getTensor(<<"F", "z">>).val))
gridEx == lazy("_gridEx", TRUE, ndgrid(getTensor(<<"E", "x">>).val))
gridEy == lazy("_gridEy", dim > 1, ndgrid(getTensor(<<"E", "y">>).val))
gridEz == lazy("_gridEz", dim > 2, ndgrid(getTensor(<<"E", "z">>).val))

(***************************************************************************)
(* Geometries                                                              *)
(***************************************************************************)
\* the matrix flattened with the last index varying fastest
flattenRowMajor(M) ==
    LET rows == Len(M)
        cols == Len(M[1])
    IN  [r \in 1..(rows * cols) |-> M[((r - 1) \div cols) + 1][((r - 1) % cols) + 1]]

\* vol with the outer products flattened row by row
volValue_rowMajor ==
    LET vh == Val(_h)
    IN  CASE dim = 1 -> mkvc1(vh[1])
          [] dim = 2 -> flattenRowMajor(outer(vh[1], vh[2]))
          [] dim = 3 -> flattenRowMajor(outer(flattenRowMajor(outer(vh[1], vh[2])), vh[3]))

volValue ==
    LET vh == h
    IN  CASE dim = 1 -> mkvc1(vh[1])
          [] dim = 2 -> mkvc(outer(vh[1], vh[2]))
          [] dim = 3 -> mkvc(outer(mkvc(outer(vh[1], vh[2])), vh[3]))

\* area with the y faces taking the x widths in place of the z widths
areaValue_wrongWidth ==
    LET vh == Val(_h)
        nc == nCv
    IN  CASE dim = 1 -> ones(nc[1] + 1)
          [] dim = 2 ->
               LET area1 == outer(ones(nc[1] + 1), vh[2])
                   area2 == outer(vh[1], ones(nc[2] + 1))
               IN  mkvc(area1) \o mkvc(area2)
          [] dim = 3 ->
               LET area1 == outer(ones(nc[1] + 1), mkvc(outer(vh[2], vh[3])))
                   area2 == outer(vh[1], mkvc(outer(ones(nc[2] + 1), vh[1])))
                   area3 == outer(vh[1], mkvc(outer(vh[2], ones(nc[3] + 1))))
               IN  mkvc(area1) \o mkvc(area2) \o mkvc(area3)

areaValue ==
    LET vh == h
        nc == nCv
    IN  CASE dim = 1 -> ones(nc[1] + 1)
          [] dim = 2 ->
               LET area1 == outer(ones(nc[1] + 1), vh[2])
                   area2 == outer(vh[1], ones(nc[2] + 1))
               IN  mkvc(area1) \o mkvc(area2)
          [] dim = 3 ->
               LET area1 == outer(ones(nc[1] + 1), mkvc(outer(vh[2], vh[3])))
                   area2 == outer(vh[1], mkvc(outer(ones(nc[2] + 1), vh[3])))
                   area3 == outer(vh[1], mkvc(outer(vh[2], ones(nc[3] + 1))))
               IN  mkvc(area1) \o mkvc(area2) \o mkvc(area3)

\* edge with the blocks of the x and y edges concatenated in the wrong order
edgeValue_swappedBlocks ==
    LET vh == Val(_h)
        nc == nCv
    IN  CASE dim = 1 -> mkvc1(vh[1])
          [] dim = 2 ->
               LET l1 == outer(vh[1], ones(nc[2] + 1))
                   l2 == outer(ones(nc[1] + 1), vh[2])
               IN  mkvc(l2) \o mkvc(l1)
          [] dim = 3 ->
               LET l1 == outer(vh[1], mkvc(outer(ones(nc[2] + 1), ones(nc[3] + 1))))
                   l2 == outer(ones(nc[1] + 1), mkvc(outer(vh[2], ones(nc[3] + 1))))
                   l3 == outer(ones(nc[1] + 1), mkvc(outer(ones(nc[2] + 1), vh[3])))
               IN  mkvc(l2) \o mkvc(l1) \o mkvc(l3)

edgeValue ==
    LET vh == h
        nc == nCv
    IN  CASE dim = 1 -> mkvc1(vh[1])
          [] dim = 2 ->
               LET l1 == outer(vh[1], ones(nc[2] + 1))
                   l2 == outer(ones(nc[1] + 1), vh[2])
               IN  mkvc(l1) \o mkvc(l2)
          [] dim = 3 ->
               LET l1 == outer(vh[1], mkvc(outer(ones(nc[2] + 1), ones(nc[3] + 1))))
                   l2 == outer(ones(nc[1] + 1), mkvc(outer(vh[2], ones(nc[3] + 1))))
                   l3 == outer(ones(nc[1] + 1), mkvc(outer(ones(nc[2] + 1), vh[3])))
               IN  mkvc(l1) \o mkvc(l2) \o mkvc(l3)

vol == lazy("_vol", dim \in 1..3, volValue)
area == lazy("_area", dim \in 1..3, areaValue)
edge == lazy("_edge", dim \in 1..3, edgeValue)

(***************************************************************************)
(* getInterpolationMat                                                     *)
(***************************************************************************)
\* BaseMesh.nFv and nEv: the number of faces and of edges per direction
nFv == [a \in 1..dim |-> Prod([b \in 1..dim |-> IF b = a THEN nCv[b] + 1 ELSE nCv[b]])]
nEv == [a \in 1..dim |-> Prod([b \in 1..dim |-> IF b = a THEN nCv[b] ELSE nCv[b] + 1])]

\* Utils.spzeros and Utils.interpmat, by shape only: the interpolation
\* weights themselves are not modelled
spzeros(rows, cols) == [what |-> "zeros", rows |-> rows, cols |-> cols]
interpmat(loc, ten) ==
    [what |-> "interp", rows |-> Len(loc),
     cols |-> Prod([i \in 1..Len(ten) |-> Len(ten[i])])]

\* 'c' in locType
contains(locType, c) == \E i \in DOMAIN locType : locType[i] = c

FaceEdgeTags == {<<"F", "x">>, <<"F", "y">>, <<"F", "z">>,
                 <<"E", "x">>, <<"E", "y">>, <<"E", "z">>}

\* getInterpolationMat with the tag dispatched before the domain check
getInterpolationMat_dispatchFirst(loc, locType) ==
    LET ind == IF contains(locType, "x") THEN 0
               ELSE IF contains(locType, "y") THEN 1
               ELSE IF contains(locType, "z") THEN 2 ELSE -1
        outside == \E r \in DOMAIN loc : ~isInside(loc)[r]
    IN  IF locType \in FaceEdgeTags /\ dim >= ind
        THEN IF outside THEN [kind |-> "AssertionError", val |-> None]
             ELSE LET nF_nE == IF contains(locType, "F") THEN nFv ELSE nEv
                      components == [i \in 1..Len(nF_nE) |-> spzeros(Len(loc), nF_nE[i])]
                      block == interpmat(loc, getTensor(locType).val)
                  IN  IF ind + 1 > Len(components)
                      THEN [kind |-> "IndexError", val |-> None]
                      ELSE [kind |-> "ok",
                            val |-> [components EXCEPT ![ind + 1] = block]]
        ELSE IF locType \in {<<"C", "C">>, <<"N">>}
        THEN IF outside THEN [kind |-> "AssertionError", val |-> None]
             ELSE [kind |-> "ok", val |-> <<interpmat(loc, getTensor(locType).val)>>]
        ELSE [kind |-> "NotImplementedError", val |-> None]

\* the outcome of getInterpolationMat: the matrix, as its list of blocks, or
\* the error raised
getInterpolationMat(loc, locType) ==
    IF \E r \in DOMAIN loc : ~isInside(loc)[r]
    THEN [kind |-> "AssertionError", val |-> None]
    ELSE LET ind == IF contains(locType, "x") THEN 0
                    ELSE IF contains(locType, "y") THEN 1
                    ELSE IF contains(locType, "z") THEN 2 ELSE -1
         IN  IF locType \in FaceEdgeTags /\ dim >= ind
             THEN LET nF_nE == IF contains(locType, "F") THEN nFv ELSE nEv
                      components == [i \in 1..Len(nF_nE) |-> spzeros(Len(loc), nF_nE[i])]
                      block == interpmat(loc, getTensor(locType).val)
                  IN  IF ind + 1 > Len(components)
                      THEN [kind |-> "IndexError", val |-> None]
                      ELSE [kind |-> "ok",
                            val |-> [components EXCEPT ![ind + 1] = block]]
             ELSE IF locType \in {<<"C", "C">>, <<"N">>}
             THEN [kind |-> "ok", val |-> <<interpmat(loc, getTensor(locType).val)>>]
             ELSE [kind |-> "NotImplementedError", val |-> None]

call_getInterpolationMat(loc, locType) ==
    /\ Idle
    /\ LET r == getInterpolationMat(loc, locType)
       IN  ret' = [op |-> "getInterpolationMat", arg |-> <<loc, locType>>,
                   kind |-> r.kind, val |-> r.val]
    /\ UNCHANGED <<status, _h, x0, n, cache, computed>>

\* the node vector of axis a < dim
nodeVector(a) == Val(CASE a = 1 -> vectorNx [] a = 2 -> vectorNy [] a = 3 -> vectorNz)

\* the two extreme corners of the mesh, and the upper corner moved one step
\* out of the mesh along the last axis
corner == [a \in 1..dim |-> min(nodeVector(a))]
top == [a \in 1..dim |-> max(nodeVector(a))]
beyond == [a \in 1..dim |-> IF a = dim THEN max(nodeVector(a)) + 1 ELSE max(nodeVector(a))]

\* the query arrays of Spec
LifePts == {<<corner>>, <<top>>, <<beyond>>, <<corner, beyond>>, <<beyond, top>>}

(***************************************************************************)
(* Specifications                                                          *)
(***************************************************************************)
\* the whole life of one mesh
Next ==
    \/ status = "new" /\ \E h_in \in LifeInputs : __init__(h_in, None)
    \/ gridCC
    \/ gridN
    \/ gridFx
    \/ gridFy
    \/ gridFz
    \/ gridEx
    \/ gridEy
    \/ gridEz
    \/ vol
    \/ area
    \/ edge
    \/ Idle /\ \E locType \in Tags \cup BadTags : call_getTensor(locType)
    \/ Idle /\ \E pts \in LifePts : call_isInside(pts)
    \/ Idle /\ \E pts \in LifePts, locType \in Tags \cup BadTags :
                  call_getInterpolationMat(pts, locType)
    \/ Return

Spec == Init /\ [][Next]_vars

\* construction from every input, and the uncached operations
NextGeom ==
    \/ status = "new"
       /\ \E h_in \in HInputs(MaxCells), x0_in \in X0Inputs : __init__(h_in, x0_in)
    \/ Idle /\ \E name \in Accessors : getattr(name)
    \/ Idle /\ \E locType \in Tags \cup BadTags : call_getTensor(locType)
    \/ Idle /\ \E p \in Points : call_isInside(<<p>>)
    \/ Return

SpecGeom == Init /\ [][NextGeom]_vars

\* construction, and the geometric measures
NextMeasure ==
    \/ status = "new"
       /\ \E h_in \in HInputs(MaxCells), x0_in \in X0Inputs : __init__(h_in, x0_in)
    \/ vol
    \/ area
    \/ edge
    \/ Return

SpecMeasure == Init /\ [][NextMeasure]_vars

(***************************************************************************)
(* Properties                                                              *)
(***************************************************************************)
\* the axis a face or edge tag names: x=1, y=2, z=3
axisOf(locType) == CASE locType[2] = "x" -> 1 [] locType[2] = "y" -> 2 [] locType[2] = "z" -> 3

\* the cell-centre vector of axis a < dim
centerVector(a) == Val(CASE a = 1 -> vectorCCx [] a = 2 -> vectorCCy [] a = 3 -> vectorCCz)

\* the errors that stand for the InvalidArgument of the specification
InvalidArgument == {"AssertionError", "InvalidArgument"}

\* C1: for in-domain points getInterpolationMat raises NotImplementedError,
\* and returns no matrix, for every tag outside the enumeration and for every
\* face or edge tag whose axis index exceeds dim-1.
C1_UnsupportedTagRaisesNotImplemented ==
    (ret.op = "getInterpolationMat" /\ \A r \in DOMAIN ret.arg[1] : isInside(ret.arg[1])[r])
        => LET locType == ret.arg[2]
               unsupported == \/ locType \notin Tags
                              \/ locType \in FaceEdgeTags /\ axisOf(locType) - 1 > dim - 1
           IN  unsupported => ret.kind = "NotImplementedError" /\ ret.val = None

\* C2: getInterpolationMat fails with the domain error, whatever the tag,
\* whenever one query point is outside the mesh; it returns no matrix and
\* changes no cache slot.
C2_OutOfDomainFirst ==
    [][(ret'.op = "getInterpolationMat"
          /\ \E r \in DOMAIN ret'.arg[1] :
                \E a \in 1..dim : \/ ret'.arg[1][r][a] < min(nodeVector(a))
                                  \/ ret'.arg[1][r][a] > max(nodeVector(a)))
        => /\ ret'.kind = "AssertionError"
           /\ ret'.val = None
           /\ cache' = cache
           /\ computed' = computed]_vars

C2_Witness ==
    /\ ret.op = "getInterpolationMat"
    /\ ret.kind = "AssertionError"
    /\ ret.arg[2] \in BadTags
    /\ Len(ret.arg[1]) = 2
    /\ dim = 3
    /\ \A s \in Slots : cache[s] # None

C4_GetTensorSelection ==
    (ret.op = "getTensor" /\ ret.arg[1] \in Tags)
        => LET locType == ret.arg[1]
               node(a) == \/ locType = <<"N">>
                          \/ locType[1] = "F" /\ axisOf(locType) = a
                          \/ locType[1] = "E" /\ axisOf(locType) # a
           IN  /\ ret.kind = "ok"
               /\ Len(ret.val) = dim
               /\ \A a \in 1..dim :
                     ret.val[a] = IF node(a) THEN nodeVector(a) ELSE centerVector(a)

C4_Witness ==
    /\ ret.op = "getTensor"
    /\ ret.arg[1] = <<"E", "y">>
    /\ dim = 3
    /\ nCv = <<2, 1, 2>>
    /\ Len(ret.val) = 3

\* C5: isInside is true of a point exactly when every coordinate lies in the
\* closed range of its axis' node vector: true for every grid node and
\* corner, false as soon as a coordinate exceeds the largest node.
C5_IsInsideClosedBox ==
    ret.op = "isInside"
        => \A r \in DOMAIN ret.arg[1] :
              LET p == ret.arg[1][r]
              IN  /\ ret.val[r] = \A a \in 1..dim : /\ min(nodeVector(a)) <= p[a]
                                                    /\ p[a] <= max(nodeVector(a))
                  /\ (\A a \in 1..dim : p[a] \in Range(nodeVector(a))) => ret.val[r]
                  /\ (\E a \in 1..dim : p[a] > max(nodeVector(a))) => ~ret.val[r]

C5_Witness ==
    /\ ret.op = "isInside"
    /\ dim = 3
    /\ ret.arg[1][1][1] = max(nodeVector(1))
    /\ ret.arg[1][1][2] = min(nodeVector(2))
    /\ ret.arg[1][1][3] = max(nodeVector(3)) + 1
    /\ ret.val = <<FALSE>>

\* the axis and the kind of a per-axis property
attrAxis(name) ==
    CASE name \in {"hx", "vectorNx", "vectorCCx"} -> 1
      [] name \in {"hy", "vectorNy", "vectorCCy"} -> 2
      [] name \in {"hz", "vectorNz", "vectorCCz"} -> 3

\* C6: with positive widths the node vector of an axis a < dim has nC+1
\* entries, starts at x0[a] and steps by the widths; the cell-centre vector
\* has nC entries, each the midpoint of its two nodes; for a >= dim the
\* three properties are None.
C6_AxisVectors ==
    (ret.op = "getattr" /\ \A a \in 1..dim : \A i \in DOMAIN h[a] : h[a][i] > 0)
        => LET name == ret.arg[1]
               a == attrAxis(name)
               v == Val(ret.val[1])
           IN  /\ ret.kind = "ok"
               /\ a > dim => ret.val[1] = None
               /\ (a <= dim /\ name \in {"vectorNx", "vectorNy", "vectorNz"})
                     => /\ Len(v) = nCv[a] + 1
                        /\ v[1] = Val(x0)[a]
                        /\ \A i \in 1..nCv[a] : v[i + 1] - v[i] = h[a][i] /\ v[i] < v[i + 1]
               /\ (a <= dim /\ name \in {"vectorCCx", "vectorCCy", "vectorCCz"})
                     => /\ Len(v) = nCv[a]
                        /\ \A i \in 1..nCv[a] :
                              /\ nodeVector(a)[i] < v[i]
                              /\ v[i] < nodeVector(a)[i + 1]
                              /\ 2 * v[i] = nodeVector(a)[i] + nodeVector(a)[i + 1]

C6_Witness ==
    /\ ret.op = "getattr"
    /\ ret.arg[1] = "vectorCCz"
    /\ dim = 3
    /\ h[3] = <<2, 4>>
    /\ Val(x0) = <<3, -2, 5>>
    /\ ret.val = <<Some(<<6, 9>>)>>

\* the index along axis b (from 0) of entry r (from 1) of an array of shape
\* m, flattened with the first axis varying fastest
indexAlong(m, b, r) == ((r - 1) \div Prod(SubSeq(m, 1, b - 1))) % m[b]

\* C7: vol has one entry per cell, the entry at i + nCx*j + nCx*nCy*k being
\* hx[i]*hy[j]*hz[k]; its sum is the product of the per-axis extents
\* (hx=[1,1,1], hy=[1,2] gives [1,1,1,2,2,2]).
C7_Vol ==
    ret.op = "_vol"
        => LET v == Val(ret.val)
           IN  /\ ret.val # None
               /\ Len(v) = Prod(nCv)
               /\ \A r \in 1..Len(v) :
                     v[r] = Prod([a \in 1..dim |-> h[a][indexAlong(nCv, a, r) + 1]])
               /\ \A i \in 0..(nCv[1] - 1) :
                     \A j \in 0..((IF dim > 1 THEN nCv[2] ELSE 1) - 1) :
                        \A k \in 0..((IF dim > 2 THEN nCv[3] ELSE 1) - 1) :
                           v[1 + i + nCv[1] * j
                               + nCv[1] * (IF dim > 1 THEN nCv[2] ELSE 1) * k]
                             = h[1][i + 1] * (IF dim > 1 THEN h[2][j + 1] ELSE 1)
                                 * (IF dim > 2 THEN h[3][k + 1] ELSE 1)
               /\ Sum(v) = Prod([a \in 1..dim |-> Sum(h[a])])
               /\ h = <<<<2, 2, 2>>, <<2, 4>>>> => v = <<4, 4, 4, 8, 8, 8>>

C7_Witness ==
    /\ ret.op = "_vol"
    /\ h = <<<<2, 4>>, <<4>>, <<4, 2>>>>
    /\ ret.val = Some(<<32, 64, 16, 32>>)

\* the shape of the block of faces (or edges) of direction a
faceShape(a) == [b \in 1..dim |-> IF b = a THEN nCv[b] + 1 ELSE nCv[b]]
edgeShape(a) == [b \in 1..dim |-> IF b = a THEN nCv[b] ELSE nCv[b] + 1]

\* the first index (from 0) of block a in a concatenation of blocks
offset(shape(_), a) == Sum([b \in 1..(a - 1) |-> Prod(shape(b))])

\* C8: area is the concatenation in axis order of one block per axis; block
\* a has (nC[a]+1) * prod of nC[b], b # a, entries, and the entry of a face
\* is the product of the widths of the other axes at that face's index; in
\* 1-D it is nC+1 ones.
C8_Area ==
    ret.op = "_area"
        => LET v == Val(ret.val)
           IN  /\ ret.val # None
               /\ Len(v) = Sum([a \in 1..dim |-> Prod(faceShape(a))])
               /\ \A a \in 1..dim : \A r \in 1..Prod(faceShape(a)) :
                     v[offset(faceShape, a) + r]
                       = Prod([b \in 1..dim |->
                                 IF b = a THEN 1
                                 ELSE h[b][indexAlong(faceShape(a), b, r) + 1]])
               /\ dim = 1 => v = [i \in 1..(nCv[1] + 1) |-> 1]
               /\ dim = 3 => Len(v) = (nCv[1] + 1) * nCv[2] * nCv[3]
                                      + nCv[1] * (nCv[2] + 1) * nCv[3]
                                      + nCv[1] * nCv[2] * (nCv[3] + 1)

C8_Witness ==
    /\ ret.op = "_area"
    /\ h = <<<<2, 4>>, <<4>>, <<4, 2>>>>
    /\ Len(Val(ret.val)) = 6 + 8 + 6
    /\ SubSeq(Val(ret.val), 7, 14) = <<8, 16, 8, 16, 4, 8, 4, 8>>

\* C9: edge is the concatenation in axis order of one block per axis; block
\* a has nC[a] * prod of (nC[b]+1), b # a, entries, and the entry of an edge
\* is the width h[a] at its index along a; in 1-D it is hx.
C9_Edge ==
    ret.op = "_edge"
        => LET v == Val(ret.val)
           IN  /\ ret.val # None
               /\ Len(v) = Sum([a \in 1..dim |-> Prod(edgeShape(a))])
               /\ \A a \in 1..dim : \A r \in 1..Prod(edgeShape(a)) :
                     v[offset(edgeShape, a) + r] = h[a][indexAlong(edgeShape(a), a, r) + 1]
               /\ dim = 1 => v = h[1]

C9_Witness ==
    /\ ret.op = "_edge"
    /\ h = <<<<2, 4>>, <<4>>, <<4, 2>>>>
    /\ Len(Val(ret.val)) = 12 + 9 + 12
    /\ SubSeq(Val(ret.val), 22, 33) = <<4, 4, 4, 4, 4, 4, 2, 2, 2, 2, 2, 2>>

\* the slots that a mesh of too low a dimension never fills
absentSlots ==
    (IF dim < 2 THEN {"_gridFy", "_gridEy"} ELSE {})
        \cup (IF dim < 3 THEN {"_gridFz", "_gridEz"} ELSE {})

\* C10: under any sequence of reads and calls each cache slot is computed at
\* most once, on the first read of its own accessor; once filled it never
\* changes; a read fills no slot but its own; and the y (z) face and edge
\* grids stay None for ever when dim < 2 (dim < 3).
C10_Memoisation ==
    [][/\ \A s \in Slots :
             /\ computed'[s] <= 1
             /\ cache[s] # None => cache'[s] = cache[s] /\ computed'[s] = computed[s]
             /\ cache'[s] # cache[s] => ret'.op = s /\ computed'[s] = computed[s] + 1
             /\ (ret'.op = s /\ status = "ok" /\ s \notin absentSlots) => cache'[s] # None
       /\ status' = "ok" => \A s \in absentSlots' : cache'[s] = None]_vars

C10_Witness ==
    /\ status = "ok"
    /\ dim = 2
    /\ ret.op = "_gridEz"
    /\ ret.val = None
    /\ \A s \in Slots \ {"_gridFz", "_gridEz"} : cache[s] # None /\ computed[s] = 1
    /\ cache["_gridFz"] = None /\ cache["_gridEz"] = None
====
